---- MODULE Spec2Model ----
(***************************************************************************)
(* State-machine model of the BSE news analysis pipeline:                  *)
(*   services/bse_analysis_service.py  analyze_company, BSEAnalysisService *)
(*   tools/web_fetch.py                WebFetchTool, BSENewsAgent          *)
(* Texts (company names, links, completion replies) are sequences of       *)
(* tokens; a label such as "Score:" is one token.                          *)
(***************************************************************************)
EXTENDS Integers, Sequences, FiniteSets, TLC

(***************************************************************************)
(* Bounds of the model.                                                    *)
(***************************************************************************)
\* Longest feed (number of <item> elements) a query returns.
MaxFeedLen == 1
\* Longest completion reply drawn from ReplyTokens, in tokens.
MaxReplyLen == 2
\* Longest article list handed to _deduplicate_articles on its own.
MaxDedupLen == 3
\* Longest reply drawn from ParseTokens for _parse_combined_analysis on its
\* own, and the largest article count handed to it.
MaxParseLen == 3
MaxArticleCount == 11
\* Longest company name drawn from NameChars for _generate_filename on its own.
MaxNameLen == 3

(***************************************************************************)
(* Program constants.                                                      *)
(***************************************************************************)
\* web_fetch.py:385  self._parse_rss_feed(rss_url, limit=10)
FeedLimit == 10
\* web_fetch.py:356-365  the four search queries
NumQueries == 4
\* web_fetch.py:619  min(100, article_count * 10)
ConfidencePerArticle == 10
ConfidenceCap == 100

\* web_fetch.py:684  def _generate_filename(self, company_name): two parameters
GenerateFilenameParams == 2
\* bse_analysis_service.py:166  BSENewsAgent._generate_filename(company_name):
\* called through the class, so one positional argument and no bound self
GenerateFilenameArgs == 1
\* web_fetch.py:694  def save_analysis_to_file(self, analysis_data): two parameters
SaveAnalysisToFileParams == 2
\* bse_analysis_service.py:146  self.agent.save_analysis_to_file(analysis, s3_bucket):
\* the bound self and two positional arguments
SaveAnalysisToFileArgs == 3

\* bse_analysis_service.py:26  def track_scrape_result(company_name, success)
TrackScrapeResultParams == 2
\* bse_news.py:41 and 47  track_scrape_result(company_name, ..., table_name)
TrackScrapeResultArgs == 3
\* bse_analysis_service.py:54  timedelta(days=7)
TtlDays == 7

(***************************************************************************)
(* Inputs.                                                                 *)
(***************************************************************************)
Slots == {1, 2}
Companies == { <<"T", "c", "s">>, <<"I", " ", "t", "!">> }
S3Bucket == "s3://bse-news-analyzer-data"

\* datetime.now().strftime("%Y-%m-%d"): the calendar days of a run
Days == {1, 2}

(***************************************************************************)
(* Text helpers: Python str methods and re patterns over token sequences.  *)
(***************************************************************************)
UpperCase == <<"A","B","C","D","E","F","G","H","I","J","K","L","M",
               "N","O","P","Q","R","S","T","U","V","W","X","Y","Z">>
LowerCase == <<"a","b","c","d","e","f","g","h","i","j","k","l","m",
               "n","o","p","q","r","s","t","u","v","w","x","y","z">>
Digits == <<"0","1","2","3","4","5","6","7","8","9">>
Whitespace == {" ", "\n"}

Range(f) == { f[x] : x \in DOMAIN f }
\* Mutant: min returns its first argument.
Min_first(a, b) == a
Min(a, b) == IF a <= b THEN a ELSE b

\* str.lower() on one character
LowerChar(ch) ==
    IF \E k \in 1..26 : UpperCase[k] = ch
    THEN LowerCase[CHOOSE k \in 1..26 : UpperCase[k] = ch]
    ELSE ch
\* str.lower()
Lower(s) == [k \in 1..Len(s) |-> LowerChar(s[k])]
\* the character class [a-z0-9]
IsAlnumLower(ch) == ch \in Range(LowerCase) \cup Range(Digits)

\* s[k:] for a 1-based k
Drop(s, k) == SubSeq(s, k, Len(s))

\* re.sub(r"[^a-z0-9]+", "_", s): every maximal run of other characters
\* becomes one underscore
RECURSIVE SubNonAlnum(_)
SubNonAlnum(s) ==
    IF s = <<>> THEN <<>>
    ELSE IF IsAlnumLower(Head(s)) THEN <<Head(s)>> \o SubNonAlnum(Tail(s))
    ELSE LET rest == Tail(s)
             stop == IF \E k \in 1..Len(rest) : IsAlnumLower(rest[k])
                     THEN CHOOSE k \in 1..Len(rest) :
                            /\ IsAlnumLower(rest[k])
                            /\ \A j \in 1..(k-1) : ~IsAlnumLower(rest[j])
                     ELSE Len(rest) + 1
         IN <<"_">> \o SubNonAlnum(Drop(rest, stop))

\* str.strip(chars): drop the leading and trailing characters that are in chars
RECURSIVE LStrip(_, _)
LStrip(s, chars) ==
    IF s # <<>> /\ Head(s) \in chars THEN LStrip(Tail(s), chars) ELSE s
RECURSIVE RStrip(_, _)
RStrip(s, chars) ==
    IF s # <<>> /\ s[Len(s)] \in chars
    THEN RStrip(SubSeq(s, 1, Len(s) - 1), chars) ELSE s
Strip(s, chars) == RStrip(LStrip(s, chars), chars)

\* Mutant: the leading and trailing underscores stay.
_generate_filename_unstripped(company_name) ==
    SubNonAlnum(Lower(company_name)) \o <<".json">>

\* BSENewsAgent._generate_filename: lower-case, substitute, strip, add ".json"
_generate_filename(company_name) ==
    Strip(SubNonAlnum(Lower(company_name)), {"_"}) \o <<".json">>

\* One token for a run of 4301 nines: longer than the 4300 digits int()
\* converts by default, beyond which it raises ValueError.
OverlongDigits == "9999...9 (4301 digits)"

\* the character classes \d and \s
IsDigit(t) == t \in Range(Digits) \cup {OverlongDigits}
DigitVal(t) == (CHOOSE k \in 1..10 : Digits[k] = t) - 1
\* int() of a string of digits
RECURSIVE IntOf(_)
IntOf(ds) ==
    IF ds = <<>> THEN 0
    ELSE 10 * IntOf(SubSeq(ds, 1, Len(ds) - 1)) + DigitVal(ds[Len(ds)])
\* the first index >= k of s that holds no whitespace (Len(s)+1 when none): \s*
RECURSIVE SkipWs(_, _)
SkipWs(s, k) ==
    IF k <= Len(s) /\ s[k] \in Whitespace THEN SkipWs(s, k + 1) ELSE k
\* the first index >= k of s that holds no digit: the end of \d+
RECURSIVE SkipDigits(_, _)
SkipDigits(s, k) ==
    IF k <= Len(s) /\ IsDigit(s[k]) THEN SkipDigits(s, k + 1) ELSE k

\* where the digits of  Score:\s*(-?\d+)  start when the pattern matches at i
\* (0 when it does not); the optional sign is the token before them
ScoreDigitsAt(s, i) ==
    IF s[i] # "Score:" THEN 0
    ELSE LET j == SkipWs(s, i + 1)
             d == IF j <= Len(s) /\ s[j] = "-" THEN j + 1 ELSE j
         IN IF d <= Len(s) /\ IsDigit(s[d]) THEN d ELSE 0

\* re.search(r"Score:\s*(-?\d+)", text) and int(group(1)), 0 without a match
ParseScore(s) ==
    IF \E i \in 1..Len(s) : ScoreDigitsAt(s, i) # 0
    THEN LET i == CHOOSE i \in 1..Len(s) :
                    /\ ScoreDigitsAt(s, i) # 0
                    /\ \A h \in 1..(i - 1) : ScoreDigitsAt(s, h) = 0
             d == ScoreDigitsAt(s, i)
             v == IntOf(SubSeq(s, d, SkipDigits(s, d) - 1))
         IN IF s[d - 1] = "-" THEN 0 - v ELSE v
    ELSE 0

\* whether int(score_match.group(1)) raises ValueError: the matched digits
\* are more than int() converts
ParseRaises(s) ==
    /\ \E i \in 1..Len(s) : ScoreDigitsAt(s, i) # 0
    /\ LET i == CHOOSE i \in 1..Len(s) :
                    /\ ScoreDigitsAt(s, i) # 0
                    /\ \A h \in 1..(i - 1) : ScoreDigitsAt(s, h) = 0
           d == ScoreDigitsAt(s, i)
       IN \E k \in d..(SkipDigits(s, d) - 1) : s[k] = OverlongDigits

\* re.search(label + r"\s*(.+?)(?=" + stop + "|$)", text, re.DOTALL): whether
\* it matches, and the text of group(1). The pattern matches at the first label
\* that has at least one character after it; \s* is greedy and gives one
\* character back when nothing else is left for .+?; the group ends before the
\* first stop label, at the end of the text, or before a newline that ends the
\* text.
LabelGroup(s, label, stop) ==
    IF \E i \in 1..(Len(s) - 1) : s[i] = label
    THEN LET i == CHOOSE i \in 1..(Len(s) - 1) :
                    /\ s[i] = label
                    /\ \A h \in 1..(i - 1) : s[h] # label
             w == SkipWs(s, i + 1)
             j == IF w > Len(s) THEN Len(s) ELSE w
             IsEnd(p) == \/ p = Len(s) + 1
                         \/ s[p] = stop
                         \/ (p = Len(s) /\ s[p] = "\n")
             e == CHOOSE p \in (j + 1)..(Len(s) + 1) :
                    /\ IsEnd(p)
                    /\ \A q \in (j + 1)..(p - 1) : ~IsEnd(q)
         IN [found |-> TRUE, text |-> SubSeq(s, j, e - 1)]
    ELSE [found |-> FALSE, text |-> <<>>]

\* str.split("\n"): the pieces between newlines (one empty piece for "")
RECURSIVE SplitLines(_)
SplitLines(s) ==
    IF \E k \in 1..Len(s) : s[k] = "\n"
    THEN LET k == CHOOSE k \in 1..Len(s) :
                    s[k] = "\n" /\ \A h \in 1..(k - 1) : s[h] # "\n"
         IN <<SubSeq(s, 1, k - 1)>> \o SplitLines(Drop(s, k + 1))
    ELSE <<s>>

\* Mutant: only a text that starts with "Error:" counts.
HasError_prefix(s) == s # <<>> /\ s[1] = "Error:"
\* "Error:" in text
HasError(s) == \E k \in 1..Len(s) : s[k] = "Error:"

(***************************************************************************)
(* tools/web_fetch.py: the pure parts of WebFetchTool and BSENewsAgent.    *)
(***************************************************************************)
\* Mutant: a failed feed request still contributes an article.
_parse_rss_feed_keeps_items(response, limit) ==
    IF response.kind = "ok"
    THEN SubSeq(response.items, 1, Min(limit, Len(response.items)))
    ELSE <<[title |-> <<"a">>, link |-> <<"http://", "x">>]>>

\* BSENewsAgent._parse_rss_feed: the articles of one feed response, at most
\* limit of them; [] when the request or the XML parse raises
_parse_rss_feed(response, limit) ==
    IF response.kind = "ok"
    THEN SubSeq(response.items, 1, Min(limit, Len(response.items)))
    ELSE <<>>

\* article_id = f"{article['title']}|{article['link']}"
ArticleId(article) == article.title \o <<"|">> \o article.link

\* BSENewsAgent._deduplicate_articles: keep an article when its id is new
RECURSIVE DedupFrom(_, _, _)
DedupFrom(articles, seen, unique_articles) ==
    IF articles = <<>> THEN unique_articles
    ELSE LET article == Head(articles)
         IN IF ArticleId(article) \notin seen
            THEN DedupFrom(Tail(articles), seen \cup {ArticleId(article)},
                           Append(unique_articles, article))
            ELSE DedupFrom(Tail(articles), seen, unique_articles)
_deduplicate_articles(articles) == DedupFrom(articles, {}, <<>>)

\* the first article's link, or the default when that link is empty
RepresentativeUrl(unique_articles) ==
    IF unique_articles[1].link # <<>> THEN unique_articles[1].link
    ELSE <<"https://", "news.google.com">>

\* WebFetchTool.validate_params: the error message, or <<>> for None. The
\* prompt is the analysis prompt, never empty.
validate_params(url) ==
    IF url = <<>> \/ Strip(url, Whitespace) = <<>>
    THEN <<"The 'url' parameter cannot be empty.">>
    ELSE IF Head(url) \notin {"http://", "https://"}
    THEN <<"The 'url' must be a valid URL starting with http:// or https://.">>
    ELSE <<>>

\* the search_queries list: four templates around the company name
SearchQueries(company_name) == [q \in 1..NumQueries |-> <<company_name, q>>]

\* Mutant: the factors go to the list of the opposite sign.
_parse_combined_analysis_swapped(analysis_text, article_count) ==
    LET score == ParseScore(analysis_text)
        reasoning_match == LabelGroup(analysis_text, "Reasoning:", "Key Factors:")
        reasoning == IF reasoning_match.found
                     THEN Strip(reasoning_match.text, Whitespace) ELSE <<>>
        factors_match == LabelGroup(analysis_text, "Key Factors:", "Score:")
        factors == IF factors_match.found
                   THEN SplitLines(Strip(factors_match.text, Whitespace))
                   ELSE <<>>
    IN [overall_sentiment |-> score,
        analysis_reasoning |-> reasoning,
        key_positive_drivers |-> IF score < 0 THEN factors ELSE <<>>,
        key_risk_factors |-> IF score > 0 THEN factors ELSE <<>>,
        confidence |-> Min(ConfidenceCap, article_count * ConfidencePerArticle)]

\* BSENewsAgent._parse_combined_analysis
_parse_combined_analysis(analysis_text, article_count) ==
    LET score == ParseScore(analysis_text)
        reasoning_match == LabelGroup(analysis_text, "Reasoning:", "Key Factors:")
        reasoning == IF reasoning_match.found
                     THEN Strip(reasoning_match.text, Whitespace) ELSE <<>>
        factors_match == LabelGroup(analysis_text, "Key Factors:", "Score:")
        factors == IF factors_match.found
                   THEN SplitLines(Strip(factors_match.text, Whitespace))
                   ELSE <<>>
    IN [overall_sentiment |-> score,
        analysis_reasoning |-> reasoning,
        key_positive_drivers |-> IF score > 0 THEN factors ELSE <<>>,
        key_risk_factors |-> IF score < 0 THEN factors ELSE <<>>,
        confidence |-> Min(ConfidenceCap, article_count * ConfidencePerArticle)]

\* Mutant: the no-articles return reports success.
NoArticlesResult_success(company_name, date) ==
    [company |-> company_name,
     analysis_date |-> date,
     search_queries_used |-> SearchQueries(company_name),
     articles_analyzed |-> 0,
     overall_sentiment |-> 0,
     key_positive_drivers |-> <<>>,
     key_risk_factors |-> <<>>,
     confidence |-> 0,
     status |-> "success",
     display_message |-> <<"No articles found for analysis">>]

\* analyze_company_news, the return for no articles
NoArticlesResult(company_name, date) ==
    [company |-> company_name,
     analysis_date |-> date,
     search_queries_used |-> SearchQueries(company_name),
     articles_analyzed |-> 0,
     overall_sentiment |-> 0,
     key_positive_drivers |-> <<>>,
     key_risk_factors |-> <<>>,
     confidence |-> 0,
     status |-> "error",
     display_message |-> <<"No articles found for analysis">>]

\* Mutant: the error return keeps the confidence of the article count.
ToolErrorResult_confidence(company_name, date, unique_articles, llm_content) ==
    [company |-> company_name,
     analysis_date |-> date,
     search_queries_used |-> SearchQueries(company_name),
     articles_analyzed |-> Len(unique_articles),
     overall_sentiment |-> 0,
     key_positive_drivers |-> <<>>,
     key_risk_factors |-> <<>>,
     confidence |-> Min(ConfidenceCap, Len(unique_articles) * ConfidencePerArticle),
     status |-> "error",
     display_message |-> llm_content]

\* Mutant: the error return replaces the tool's text by a fixed message.
ToolErrorResult_fixed_message(company_name, date, unique_articles, llm_content) ==
    [company |-> company_name,
     analysis_date |-> date,
     search_queries_used |-> SearchQueries(company_name),
     articles_analyzed |-> Len(unique_articles),
     overall_sentiment |-> 0,
     key_positive_drivers |-> <<>>,
     key_risk_factors |-> <<>>,
     confidence |-> 0,
     status |-> "error",
     display_message |-> <<"Analysis failed">>]

\* analyze_company_news, the return when the tool's text holds "Error:"
ToolErrorResult(company_name, date, unique_articles, llm_content) ==
    [company |-> company_name,
     analysis_date |-> date,
     search_queries_used |-> SearchQueries(company_name),
     articles_analyzed |-> Len(unique_articles),
     overall_sentiment |-> 0,
     key_positive_drivers |-> <<>>,
     key_risk_factors |-> <<>>,
     confidence |-> 0,
     status |-> "error",
     display_message |-> llm_content]

\* Mutant: articles_analyzed counts the articles after the representative one.
SuccessResult_off_by_one(company_name, date, unique_articles, llm_content) ==
    LET sentiment_data == _parse_combined_analysis(llm_content, Len(unique_articles))
    IN [company |-> company_name,
        analysis_date |-> date,
        search_queries_used |-> SearchQueries(company_name),
        articles_analyzed |-> Len(unique_articles) - 1,
        overall_sentiment |-> sentiment_data.overall_sentiment,
        analysis_reasoning |-> sentiment_data.analysis_reasoning,
        key_positive_drivers |-> sentiment_data.key_positive_drivers,
        key_risk_factors |-> sentiment_data.key_risk_factors,
        confidence |-> sentiment_data.confidence,
        status |-> "success",
        display_message |->
            <<"Analyzed", ToString(Len(unique_articles)), "unique articles">>]

\* analyze_company_news, the final return: the parsed fields and status success
SuccessResult(company_name, date, unique_articles, llm_content) ==
    LET sentiment_data == _parse_combined_analysis(llm_content, Len(unique_articles))
    IN [company |-> company_name,
        analysis_date |-> date,
        search_queries_used |-> SearchQueries(company_name),
        articles_analyzed |-> Len(unique_articles),
        overall_sentiment |-> sentiment_data.overall_sentiment,
        analysis_reasoning |-> sentiment_data.analysis_reasoning,
        key_positive_drivers |-> sentiment_data.key_positive_drivers,
        key_risk_factors |-> sentiment_data.key_risk_factors,
        confidence |-> sentiment_data.confidence,
        status |-> "success",
        display_message |->
            <<"Analyzed", ToString(Len(unique_articles)), "unique articles">>]

(***************************************************************************)
(* The object store and the local file system: path -> content.            *)
(***************************************************************************)
Absent == [kind |-> "absent"]
Unreadable == [kind |-> "unreadable"]
Malformed == [kind |-> "malformed"]
JsonDoc(doc) == [kind |-> "json", doc |-> doc]

\* file_path = f"{s3_bucket}/outputs/{date_str}/{filename}"
S3Path(s3_bucket, date, filename) == <<s3_bucket, "outputs", date, filename>>
\* os.path.join(os.path.join("outputs", date_str), filename), a relative path
LocalPath(date, filename) == <<"outputs", date, filename>>

Paths ==
    { S3Path(S3Bucket, d, _generate_filename(c)) : d \in Days, c \in Companies }
    \cup { LocalPath(d, _generate_filename(c)) : d \in Days, c \in Companies }

\* Mutant: the guard never finds the record and reports "does not exist".
check_analysis_exists_never(company_name, s3_bucket, fs, date) == "False"

\* BSEAnalysisService.check_analysis_exists: "True", "False", or the exception
\* that leaves it. Line 166 calls the instance method _generate_filename
\* through the class with one argument, outside the try block.
check_analysis_exists(company_name, s3_bucket, fs, date) ==
    IF GenerateFilenameArgs # GenerateFilenameParams THEN "TypeError"
    ELSE LET file_path == S3Path(s3_bucket, date, _generate_filename(company_name))
         IN IF fs[file_path].kind = "json" THEN "True" ELSE "False"

\* analyze_company, the return of the guard
SkippedResult(company_name) ==
    [status |-> "skipped",
     display_message |-> <<"Analysis already exists for">> \o company_name
                           \o <<". Use force to re-run.">>,
     company |-> company_name]

\* Mutant: the saved object is not named after the company, so the write
\* lands on every company's key of that day.
save_analysis_any_company(fs, analysis, s3_bucket) ==
    [raised |-> "none",
     fs |-> [p \in DOMAIN fs |->
               IF p[1] = s3_bucket /\ p[3] = analysis.analysis_date
               THEN JsonDoc(analysis) ELSE fs[p]],
     location |-> S3Path(s3_bucket, analysis.analysis_date,
                         _generate_filename(analysis.company))]

\* BSEAnalysisService.save_analysis and BSENewsAgent.save_analysis_to_file:
\* the exception that leaves the call ("none" when it returns), the file
\* system after it and the path returned. save_analysis passes analysis and
\* s3_bucket to a method that takes analysis_data only; the method writes the
\* JSON text to outputs/<analysis_date>/<filename> of the working directory.
save_analysis(fs, analysis, s3_bucket) ==
    IF SaveAnalysisToFileArgs # SaveAnalysisToFileParams
    THEN [raised |-> "TypeError", fs |-> fs, location |-> <<>>]
    ELSE LET filepath == LocalPath(analysis.analysis_date,
                                   _generate_filename(analysis.company))
         IN [raised |-> "none",
             fs |-> [fs EXCEPT ![filepath] = JsonDoc(analysis)],
             location |-> filepath]

(***************************************************************************)
(* services/bse_analysis_service.py: tracking.                             *)
(***************************************************************************)
\* str.split(): the words between runs of whitespace
RECURSIVE SplitWhitespace(_)
SplitWhitespace(s) ==
    IF s = <<>> THEN <<>>
    ELSE IF Head(s) \in Whitespace THEN SplitWhitespace(Tail(s))
    ELSE LET n == CHOOSE n \in 1..Len(s) :
                    /\ \A k \in 1..n : s[k] \notin Whitespace
                    /\ (n = Len(s) \/ s[n + 1] \in Whitespace)
         IN <<SubSeq(s, 1, n)>> \o SplitWhitespace(Drop(s, n + 1))

\* " ".join(words)
RECURSIVE JoinSpace(_)
JoinSpace(words) ==
    IF words = <<>> THEN <<>>
    ELSE IF Len(words) = 1 THEN words[1]
    ELSE words[1] \o <<" ">> \o JoinSpace(Tail(words))

\* normalize_company_name: " ".join(company_name.lower().split())
normalize_company_name(company_name) ==
    JoinSpace(SplitWhitespace(Lower(company_name)))

TrackTypeError ==
    "TypeError: track_scrape_result() takes 2 positional arguments but 3 were given"

\* The body of track_scrape_result once the call has bound its arguments:
\* the table after it. Every failure inside the try (put_ok false) is
\* printed and swallowed; put_item replaces the item of the same pk and sk.
track_scrape_result_body(table, company_name, success, date, put_ok) ==
    IF ~put_ok THEN table
    ELSE LET normalized_name == normalize_company_name(company_name)
         IN { item \in table :
                 ~(item.pk = date /\ item.sk = normalized_name) }
            \cup {[pk |-> date, sk |-> normalized_name,
                    company_name |-> normalized_name,
                    created_at |-> date, success |-> success,
                    ttl |-> date + TtlDays]}

\* track_scrape_result as scrape_bse_news calls it: the exception that
\* leaves the call ("none" when it returns) and the table after it. The call
\* passes three arguments to a function of two parameters.
track_scrape_result(table, company_name, success, date, put_ok) ==
    IF TrackScrapeResultArgs # TrackScrapeResultParams
    THEN [raised |-> TrackTypeError, table |-> table]
    ELSE [raised |-> "none",
          table |-> track_scrape_result_body(table, company_name, success,
                                             date, put_ok)]

(***************************************************************************)
(* Inputs of the environment: feed responses, page fetches, completions,   *)
(* and what the store holds when the program starts.                       *)
(***************************************************************************)
BoundedSeq(S, n) == UNION { [1..k -> S] : k \in 0..n }

Articles ==
    { [title |-> <<"a">>, link |-> <<"http://", "x">>],
      [title |-> <<"b">>, link |-> <<>>],
      [title |-> <<"c">>, link |-> <<"ftp://", "y">>] }

NetworkError == [kind |-> "network_error", items |-> <<>>]
MalformedFeed == [kind |-> "malformed", items |-> <<>>]
FeedOk(items) == [kind |-> "ok", items |-> items]

ReplyTokens == {"Score:", "Error:", "-", "7"}
\* the reply of the spec's parsing scenario
ScenarioReply ==
    <<"Score:", " ", "3", "\n", "Reasoning:", " ", "Strong quarterly results.",
      "\n", "Key Factors:", " ", "Revenue growth", "\n", "Margin expansion">>
\* a reply with a negative score
NegativeReply ==
    <<"Score:", " ", "-", "2", "\n", "Reasoning:", " ", "Weak demand.", "\n",
      "Key Factors:", " ", "Lost contract">>

\* the completion call raises; text is str(e)
CompletionRaises == [kind |-> "raise", text |-> <<"Connection error.">>]
CompletionReply(text) == [kind |-> "reply", text |-> text]

\* Two overlapping invocations draw from the small sets, one invocation at a
\* time from the bounded ones.
FeedResponses(small) ==
    IF small
    THEN {NetworkError, FeedOk(<<>>),
          FeedOk(<<[title |-> <<"a">>, link |-> <<"http://", "x">>]>>)}
    ELSE {NetworkError, MalformedFeed}
         \cup { FeedOk(items) : items \in BoundedSeq(Articles, MaxFeedLen) }
Completions(small) ==
    IF small
    THEN {CompletionRaises, CompletionReply(ScenarioReply)}
    ELSE {CompletionRaises, CompletionReply(ScenarioReply),
          CompletionReply(NegativeReply)}
         \cup { CompletionReply(t) : t \in BoundedSeq(ReplyTokens, MaxReplyLen) }

\* a record an earlier run persisted for the company and the day
StoredRecord(company_name, date) ==
    SuccessResult(company_name, date,
                  <<[title |-> <<"a">>, link |-> <<"http://", "x">>]>>,
                  ScenarioReply)

\* What the bucket holds at the start: on the first day a record of an
\* earlier run for one company and a body that is no JSON for the other; on
\* the second day nothing for the one and an object that cannot be read for
\* the other. No local file yet.
InitialFiles(first) ==
    [p \in Paths |->
        LET c == CHOOSE c \in Companies : _generate_filename(c) = p[4]
        IN IF p[1] # S3Bucket THEN Absent
           ELSE IF p[3] = 1
           THEN (IF c = first THEN JsonDoc(StoredRecord(c, 1)) ELSE Malformed)
           ELSE (IF c = first THEN Absent ELSE Unreadable)]

(***************************************************************************)
(* State.                                                                  *)
(***************************************************************************)
VARIABLES
    inv,         \* per slot: the invocation of analyze_company running in it
    files,       \* the bucket's objects and the local files
    today,       \* the day datetime.now() reports
    concurrent,  \* whether invocations may overlap (fixed by Init)
    tracker,     \* the items of the DynamoDB table bse-news-analyzer-tracker
    probe,       \* one application of a pure function: its input, then its result
    batch        \* one run over the stocks file: its tasks and its report

vars == <<inv, files, today, concurrent, tracker, probe, batch>>

NoProbe == [op |-> "none"]
NoAnalysis == [status |-> "none"]
NoOutcome == [kind |-> "none"]
NoLimit == [kind |-> "none"]
\* no run over the stocks file has started
NoBatch ==
    [pc |-> "idle", entry |-> "none", async_mode |-> FALSE, limit |-> NoLimit,
     company_names |-> <<>>,
     \* history: whether the stocks file was there
     stocks_exists |-> TRUE,
     \* per company of the list: where its invocation is, and history: how
     \* many times it was started
     task |-> <<>>, invoked |-> <<>>,
     \* the task whose response the file response.json holds, 0 for none
     response_json |-> 0,
     success_count |-> 0, response |-> NoOutcome]
Returned(value) == [kind |-> "return", value |-> value]
Raised(exc) == [kind |-> "raise", exc |-> exc]

IdleSlot ==
    [pc |-> "idle", company |-> <<>>, force |-> FALSE,
     \* history: the day of the guard line and the object then at its key
     key_day |-> 0, at_key |-> Absent,
     guard |-> "none", qidx |-> 0,
     all_articles |-> <<>>, unique_articles |-> <<>>, llm_content |-> <<>>,
     analysis |-> NoAnalysis, outcome |-> NoOutcome,
     \* what scrape_bse_news gives its caller, and history: the success
     \* argument of each track_scrape_result call it made
     caller |-> NoOutcome, track_calls |-> <<>>,
     \* history: requests and writes the invocation has made, and whether
     \* any of its queries yielded an article
     feed_fetches |-> 0, content_fetches |-> 0, completion_calls |-> 0,
     writes |-> 0, yielded |-> FALSE,
     \* history: str(e) of the exception the completion call raised, and how
     \* the last feed request ended
     completion_error |-> <<>>, last_feed |-> "none"]

InitWith(conc) ==
    /\ inv = [i \in Slots |-> IdleSlot]
    /\ \E first \in Companies : files = InitialFiles(first)
    /\ today = 1
    /\ concurrent = conc
    /\ tracker = {}
    /\ probe = NoProbe
    /\ batch = NoBatch

Init == InitWith(FALSE)
InitConcurrent == InitWith(TRUE)

(***************************************************************************)
(* Actions.                                                                *)
(***************************************************************************)
\* A caller invokes analyze_company(company_name, s3_bucket, force). Without
\* overlap the invocations follow one another in slot 1.
Call(i, company_name, force) ==
    /\ inv[i].pc = "idle"
    /\ concurrent \/ i = 1
    /\ inv' = [inv EXCEPT ![i] = [IdleSlot EXCEPT !.pc = "guard",
                                                  !.company = company_name,
                                                  !.force = force]]
    /\ UNCHANGED <<files, today, concurrent, tracker, probe, batch>>

\* analyze_company lines 92-101: the guard, then the service is built.
\* `not force and check_analysis_exists(...)` does not evaluate the check
\* under force.
Guard(i) ==
    /\ inv[i].pc = "guard"
    /\ LET me == inv[i]
           seen == [me EXCEPT
                      !.key_day = today,
                      !.at_key = files[S3Path(S3Bucket, today,
                                              _generate_filename(me.company))]]
           exists == IF me.force THEN "none"
                     ELSE check_analysis_exists(me.company, S3Bucket, files, today)
       IN inv' = [inv EXCEPT ![i] =
            IF exists = "TypeError"
            THEN [seen EXCEPT !.guard = exists, !.pc = "done",
                              !.outcome = Raised("TypeError")]
            ELSE IF exists = "True"
            THEN [seen EXCEPT !.guard = exists, !.pc = "done",
                              !.outcome = Returned(SkippedResult(me.company))]
            ELSE [seen EXCEPT !.guard = exists, !.pc = "query", !.qidx = 1]]
    /\ UNCHANGED <<files, today, concurrent, tracker, probe, batch>>

\* analyze_company_news lines 377-393: one pass of the loop over the search
\* queries; _parse_rss_feed issues the request and swallows its failure.
QueryFeed(i, response) ==
    /\ inv[i].pc = "query"
    /\ LET me == inv[i]
           articles == _parse_rss_feed(response, FeedLimit)
       IN inv' = [inv EXCEPT ![i] =
            [me EXCEPT !.all_articles = me.all_articles \o articles,
                       !.feed_fetches = me.feed_fetches + 1,
                       !.yielded = me.yielded \/ articles # <<>>,
                       !.last_feed = IF response.kind = "ok" THEN "ok" ELSE "failed",
                       !.qidx = IF me.qidx = NumQueries THEN 0 ELSE me.qidx + 1,
                       !.pc = IF me.qidx = NumQueries THEN "dedup" ELSE "query"]]
    /\ UNCHANGED <<files, today, concurrent, tracker, probe, batch>>

\* analyze_company_news lines 395-421: deduplicate; return the error record
\* when nothing is left.
Deduplicate(i) ==
    /\ inv[i].pc = "dedup"
    /\ LET me == inv[i]
           unique_articles == _deduplicate_articles(me.all_articles)
       IN inv' = [inv EXCEPT ![i] =
            IF unique_articles = <<>>
            THEN [me EXCEPT !.all_articles = <<>>,
                            !.last_feed = "none",
                            !.analysis = NoArticlesResult(me.company, today),
                            !.pc = "save"]
            ELSE [me EXCEPT !.all_articles = <<>>,
                            !.last_feed = "none",
                            !.unique_articles = unique_articles,
                            !.pc = "execute"]]
    /\ UNCHANGED <<files, today, concurrent, tracker, probe, batch>>

\* analyze_company_news lines 478-487 and WebFetchTool.execute (approval mode
\* AUTO_EDIT, so no confirmation): validate, fetch the page, call the
\* completion service; every failure becomes a text that holds "Error:".
Execute(i, page_ok, completion) ==
    /\ inv[i].pc = "execute"
    /\ LET me == inv[i]
           url == RepresentativeUrl(me.unique_articles)
           validation_error == validate_params(url)
       IN inv' = [inv EXCEPT ![i] =
            IF validation_error # <<>>
            THEN [me EXCEPT !.pc = "classify",
                            !.llm_content = <<"Validation ", "Error:", " ">>
                                              \o validation_error]
            ELSE IF ~page_ok
            THEN [me EXCEPT !.pc = "classify",
                            !.content_fetches = me.content_fetches + 1,
                            !.llm_content = <<"Error:", " ", "Error during fetch for ">>
                                              \o url \o <<": ", "Request failed: ">>]
            ELSE IF completion.kind = "raise"
            THEN [me EXCEPT !.pc = "classify",
                            !.content_fetches = me.content_fetches + 1,
                            !.completion_calls = me.completion_calls + 1,
                            !.completion_error = completion.text,
                            !.llm_content = <<"Error:", " ", "Error during fetch for ">>
                                              \o url
                                              \o <<": ", "Error processing with OpenAI: ">>
                                              \o completion.text]
            ELSE [me EXCEPT !.pc = "classify",
                            !.content_fetches = me.content_fetches + 1,
                            !.completion_calls = me.completion_calls + 1,
                            !.llm_content = completion.text]]
    /\ UNCHANGED <<files, today, concurrent, tracker, probe, batch>>

\* analyze_company_news lines 489-522: the error record when the text holds
\* "Error:", else the parsed record; service.analyze_company returns it. An
\* exception of the parse leaves analyze_company_news and analyze_company.
Classify(i) ==
    /\ inv[i].pc = "classify"
    /\ LET me == inv[i]
       IN inv' = [inv EXCEPT ![i] =
            IF ~HasError(me.llm_content) /\ ParseRaises(me.llm_content)
            THEN [me EXCEPT !.pc = "done", !.outcome = Raised("ValueError")]
            ELSE
            [me EXCEPT !.pc = "save",
                       !.analysis =
                           IF HasError(me.llm_content)
                           THEN ToolErrorResult(me.company, today,
                                                me.unique_articles, me.llm_content)
                           ELSE SuccessResult(me.company, today,
                                              me.unique_articles, me.llm_content)]]
    /\ UNCHANGED <<files, today, concurrent, tracker, probe, batch>>

\* analyze_company lines 106-109: save, add s3_location, return.
Save(i) ==
    /\ inv[i].pc = "save"
    /\ LET me == inv[i]
           saved == save_analysis(files, me.analysis, S3Bucket)
       IN /\ files' = saved.fs
          /\ inv' = [inv EXCEPT ![i] =
               IF saved.raised = "none"
               THEN [me EXCEPT !.pc = "done",
                               !.writes = me.writes + 1,
                               !.outcome = Returned([analysis |-> me.analysis,
                                                     s3_location |-> saved.location])]
               ELSE [me EXCEPT !.pc = "done", !.outcome = Raised(saved.raised)]]
    /\ UNCHANGED <<today, concurrent, tracker, probe, batch>>

\* analysis["status"] of what analyze_company returned
StatusOf(value) ==
    IF "status" \in DOMAIN value THEN value.status ELSE value.analysis.status

\* scrape_bse_news lines 39-48, analyze_company having returned or raised
\* inside its try block: track the result and return it; on any exception
\* of the block, the tracking call of line 41 included, track a failure and
\* re-raise. An exception of the tracking call in the handler replaces the
\* one being handled.
Track_returns_error(i, put_ok) ==
    /\ inv[i].pc = "done"
    /\ inv' = [inv EXCEPT ![i] =
                 [inv[i] EXCEPT !.pc = "tracked",
                                !.caller = IF inv[i].outcome.kind = "return"
                                           THEN inv[i].outcome
                                           ELSE Returned([status |-> "error"])]]
    /\ UNCHANGED <<files, today, concurrent, tracker, probe, batch>>

Track(i, put_ok) ==
    /\ inv[i].pc = "done"
    /\ LET me == inv[i]
           first == IF me.outcome.kind = "return"
                    THEN track_scrape_result(tracker, me.company,
                                             StatusOf(me.outcome.value) = "success",
                                             today, put_ok)
                    ELSE [raised |-> me.outcome.exc, table |-> tracker]
           handler == track_scrape_result(first.table, me.company, FALSE,
                                          today, put_ok)
           calls == (IF me.outcome.kind = "return"
                     THEN <<StatusOf(me.outcome.value) = "success">>
                     ELSE <<>>)
                    \o (IF first.raised = "none" THEN <<>> ELSE <<FALSE>>)
       IN IF first.raised = "none"
          THEN /\ tracker' = first.table
               /\ inv' = [inv EXCEPT ![i] =
                            [me EXCEPT !.pc = "tracked", !.caller = me.outcome,
                                       !.track_calls = calls]]
          ELSE /\ tracker' = handler.table
               /\ inv' = [inv EXCEPT ![i] =
                            [me EXCEPT !.pc = "tracked",
                                       !.track_calls = calls,
                                       !.caller =
                                          IF handler.raised = "none"
                                          THEN Raised(first.raised)
                                          ELSE Raised(handler.raised)]]
    /\ UNCHANGED <<files, today, concurrent, probe, batch>>

\* The caller has the outcome; the slot is free again.
Finish(i) ==
    /\ inv[i].pc \in {"done", "tracked"}
    /\ inv' = [inv EXCEPT ![i] = IdleSlot]
    /\ UNCHANGED <<files, today, concurrent, tracker, probe, batch>>

\* The calendar day changes.
Midnight ==
    /\ today + 1 \in Days
    /\ today' = today + 1
    /\ UNCHANGED <<inv, files, concurrent, tracker, probe, batch>>

Next ==
    \/ \E i \in Slots, c \in Companies, f \in BOOLEAN : Call(i, c, f)
    \/ \E i \in Slots : Guard(i)
    \/ \E i \in Slots : \E r \in FeedResponses(concurrent) : QueryFeed(i, r)
    \/ \E i \in Slots : Deduplicate(i)
    \/ \E i \in Slots : \E ok \in BOOLEAN, c \in Completions(concurrent) :
          Execute(i, ok, c)
    \/ \E i \in Slots : Classify(i)
    \/ \E i \in Slots : Save(i)
    \/ \E i \in Slots : \E put_ok \in BOOLEAN : Track(i, put_ok)
    \/ \E i \in Slots : Finish(i)
    \/ Midnight

Spec == Init /\ [][Next]_vars
SpecConcurrent == InitConcurrent /\ [][Next]_vars

(***************************************************************************)
(* Pure functions on their own: Init draws the input, one action applies   *)
(* the function. No invocation of analyze_company runs meanwhile.          *)
(***************************************************************************)
Quiescent ==
    /\ inv = [i \in Slots |-> IdleSlot]
    /\ files = InitialFiles(CHOOSE c \in Companies : TRUE)
    /\ today = 1
    /\ concurrent = FALSE
    /\ tracker = {}
    /\ batch = NoBatch

\* Articles as _parse_rss_feed builds them; the first two have different
\* titles and links that give one f"{title}|{link}".
DedupArticles ==
    { [title |-> <<"a">>, link |-> <<"b", "|", "c">>, pub_date |-> "Mon"],
      [title |-> <<"a", "|", "b">>, link |-> <<"c">>, pub_date |-> "Mon"],
      [title |-> <<"A">>, link |-> <<"b", "|", "c">>, pub_date |-> "Mon"],
      [title |-> <<"a">>, link |-> <<"c">>, pub_date |-> "Mon"],
      [title |-> <<"a">>, link |-> <<"b", "|", "c">>, pub_date |-> "Tue"] }

InitDedup ==
    /\ Quiescent
    /\ \E articles \in BoundedSeq(DedupArticles, MaxDedupLen) :
          probe = [op |-> "input", fn |-> "_deduplicate_articles",
                   articles |-> articles]

\* unique_articles = self._deduplicate_articles(all_articles)
ApplyDedup ==
    /\ probe.op = "input"
    /\ probe.fn = "_deduplicate_articles"
    /\ probe' = [op |-> "result", fn |-> probe.fn, articles |-> probe.articles,
                 result |-> _deduplicate_articles(probe.articles)]
    /\ UNCHANGED <<inv, files, today, concurrent, tracker, batch>>

SpecDedup == InitDedup /\ [][ApplyDedup]_vars

ParseTokens ==
    {"Score:", "Reasoning:", "Key Factors:", " ", "\n", "-", "+", "3", "x"}
\* the three labelled sections of a reply
ScoreSection == <<"Score:", " ", "3", "\n">>
ReasoningSection == <<"Reasoning:", " ", "Strong quarterly results.", "\n">>
FactorsSection == <<"Key Factors:", " ", "Revenue growth", "\n", "Margin expansion", "\n">>
\* the sections in every order
SectionOrders ==
    { t[1] \o t[2] \o t[3] :
        t \in { u \in [1..3 -> {ScoreSection, ReasoningSection, FactorsSection}] :
                  \A j, k \in 1..3 : j # k => u[j] # u[k] } }
ParseTexts ==
    BoundedSeq(ParseTokens, MaxParseLen)
    \cup SectionOrders
    \cup {ScenarioReply, NegativeReply, <<"Score:", " ", OverlongDigits>>}

InitParse ==
    /\ Quiescent
    /\ \E analysis_text \in ParseTexts, article_count \in 0..MaxArticleCount :
          probe = [op |-> "input", fn |-> "_parse_combined_analysis",
                   analysis_text |-> analysis_text,
                   article_count |-> article_count]

\* sentiment_data = self._parse_combined_analysis(text, article_count)
ApplyParse ==
    /\ probe.op = "input"
    /\ probe.fn = "_parse_combined_analysis"
    /\ probe' =
         IF ParseRaises(probe.analysis_text)
         THEN [op |-> "result", fn |-> probe.fn,
               analysis_text |-> probe.analysis_text,
               article_count |-> probe.article_count,
               raised |-> "ValueError", result |-> [status |-> "none"]]
         ELSE [op |-> "result", fn |-> probe.fn,
               analysis_text |-> probe.analysis_text,
               article_count |-> probe.article_count,
               raised |-> "none",
               result |-> _parse_combined_analysis(probe.analysis_text,
                                                   probe.article_count)]
    /\ UNCHANGED <<inv, files, today, concurrent, tracker, batch>>

SpecParse == InitParse /\ [][ApplyParse]_vars

NameChars == {"T", "t", "1", " ", "!", "_"}
\* the company name of the spec's scenario
ScenarioName ==
    <<"T", "a", "t", "a", " ", "C", "o", "n", "s", "u", "l", "t", "a", "n",
      "c", "y", " ", "S", "e", "r", "v", "i", "c", "e", "s", "!">>
CompanyNames == BoundedSeq(NameChars, MaxNameLen) \cup {ScenarioName}

InitFilename ==
    /\ Quiescent
    /\ \E company_name \in CompanyNames :
          probe = [op |-> "input", fn |-> "_generate_filename",
                   company_name |-> company_name]

\* filename = self._generate_filename(analysis_data["company"])
ApplyFilename ==
    /\ probe.op = "input"
    /\ probe.fn = "_generate_filename"
    /\ probe' = [op |-> "result", fn |-> probe.fn,
                 company_name |-> probe.company_name,
                 result |-> _generate_filename(probe.company_name)]
    /\ UNCHANGED <<inv, files, today, concurrent, tracker, batch>>

SpecFilename == InitFilename /\ [][ApplyFilename]_vars

(***************************************************************************)
(* track_scrape_result called as it is defined, with a company name and a  *)
(* success flag, any number of times on one day or the next.               *)
(***************************************************************************)
\* names of two companies, one of them in two spellings
TrackNames == Companies \cup { <<" ", "T", "C", "S">> }

InitTrack ==
    /\ Quiescent
    /\ probe = NoProbe

\* BSEAnalysisService.track_scrape_result(company_name, success)
ApplyTrack(company_name, success, put_ok) ==
    /\ tracker' = track_scrape_result_body(tracker, company_name, success,
                                           today, put_ok)
    /\ probe' = [op |-> "result", fn |-> "track_scrape_result",
                 company_name |-> company_name, success |-> success,
                 put_ok |-> put_ok, before |-> tracker]
    /\ UNCHANGED <<inv, files, today, concurrent, batch>>

NextTrack ==
    \/ \E c \in TrackNames, success \in BOOLEAN, put_ok \in BOOLEAN :
          ApplyTrack(c, success, put_ok)
    \/ Midnight

SpecTrack == InitTrack /\ [][NextTrack]_vars

(***************************************************************************)
(* cli/invoke_lambda.py, deployment/lambda/invoke_batch_handler.py and     *)
(* deployment/lambda/scheduled_invoke_handler.py: one run over the         *)
(* companies of the stocks file.                                           *)
(***************************************************************************)
\* the non-empty lines of stocks_100, stripped
StockNames == <<"Tcs", "Infosys", "Wipro">>

IntLimit(n) == [kind |-> "int", value |-> n]
\* --limit of the command line, converted by click with type=int
CliLimits == {NoLimit} \cup { IntLimit(n) : n \in {-1, 0, 1, 2, 4} }
\* event.get("limit"): absent, an integer, a boolean or a string
EventLimits ==
    CliLimits \cup { [kind |-> "bool", value |-> TRUE],
                     [kind |-> "str", value |-> "2"] }

\* bool(limit) of "if limit:"
Truthy(limit) ==
    \/ limit.kind = "int" /\ limit.value # 0
    \/ limit.kind = "bool" /\ limit.value
    \/ limit.kind = "str" /\ limit.value # ""

\* company_names[:n]
SliceTo(names, n) ==
    IF n >= 0 THEN SubSeq(names, 1, Min(n, Len(names)))
    ELSE IF Len(names) + n > 0 THEN SubSeq(names, 1, Len(names) + n)
    ELSE <<>>

\* the file an invocation of the function writes the response to: the
\* outfile argument of "aws lambda invoke"; the scheduled handler keeps the
\* response of boto3 in a local
OutFile(entry, k) ==
    IF entry = "scheduled" THEN <<"local", k>> ELSE <<"file", "response.json">>

\* the run starts on company_names
Started(entry, async_mode, limit, company_names) ==
    [NoBatch EXCEPT !.pc = "running", !.entry = entry,
                    !.async_mode = async_mode, !.limit = limit,
                    !.company_names = company_names,
                    !.task = [k \in 1..Len(company_names) |-> "pending"],
                    !.invoked = [k \in 1..Len(company_names) |-> 0]]

\* the run ends before any company is invoked
Ended(entry, limit, response) ==
    [NoBatch EXCEPT !.pc = "aborted", !.entry = entry, !.limit = limit,
                    !.response = response]

\* invoke_lambda lines 24-48: read the stocks file, apply the limit. Without
\* the file the command raises click.Abort, which click turns into
\* sys.exit(1).
invoke_lambda(entry, async_mode, limit, stocks_exists) ==
    IF ~stocks_exists
    THEN [Ended(entry, limit, Raised("SystemExit")) EXCEPT
             !.stocks_exists = FALSE]
    ELSE Started(entry, async_mode, limit,
                 IF Truthy(limit) THEN SliceTo(StockNames, limit.value)
                 ELSE StockNames)

\* python -m cli.invoke_lambda [--async|--sync] [--limit N]
InvokeLambdaCli(async_mode, limit, stocks_exists) ==
    /\ batch.pc = "idle"
    /\ batch' = invoke_lambda("cli", async_mode, limit, stocks_exists)
    /\ UNCHANGED <<inv, files, today, concurrent, tracker, probe>>

\* invoke_batch_handler.lambda_handler. invoke_lambda is a click command
\* (invoke_lambda.py line 13): calling it hands its first positional
\* argument to click as the argument list, so an integer or a boolean raises
\* TypeError ('int' object is not iterable), caught at line 46, and None
\* makes click read the arguments of the process, which has none: the
\* command runs with its defaults.
InvokeBatchHandler(limit, stocks_exists) ==
    /\ batch.pc = "idle"
    /\ batch' =
         IF limit.kind = "str" \/ (limit.kind = "int" /\ limit.value < 0)
         THEN Ended("batch_handler", limit,
                    Returned([statusCode |-> 400,
                              error |-> "limit must be a non-negative integer"]))
         ELSE IF limit.kind # "none"
         THEN Ended("batch_handler", limit,
                    Returned([statusCode |-> 500,
                              error |-> "'int' object is not iterable"]))
         ELSE invoke_lambda("batch_handler", TRUE, NoLimit, stocks_exists)
    /\ UNCHANGED <<inv, files, today, concurrent, tracker, probe>>

\* scheduled_invoke_handler.lambda_handler lines 20-45
ScheduledInvokeHandler(stocks_exists) ==
    /\ batch.pc = "idle"
    /\ batch' =
         IF ~stocks_exists
         THEN [Ended("scheduled", NoLimit,
                     Returned([statusCode |-> 500,
                               error |-> "Stocks file not found"])) EXCEPT
                  !.stocks_exists = FALSE]
         ELSE Started("scheduled", FALSE, NoLimit, StockNames)
    /\ UNCHANGED <<inv, files, today, concurrent, tracker, probe>>

\* the tasks that have ended
Finished(b) == { k \in DOMAIN b.task : b.task[k] \in {"true", "false"} }

\* The invocation for company k starts: the subprocess of "aws lambda
\* invoke", or lambda_client.invoke. gather starts every task at once; the
\* two loops start a company when the one before it has ended.
TaskStart(k) ==
    /\ batch.pc = "running"
    /\ k \in DOMAIN batch.task
    /\ batch.task[k] = "pending"
    /\ batch.async_mode \/ \A j \in 1..(k - 1) : j \in Finished(batch)
    /\ batch' = [batch EXCEPT !.task[k] = "running",
                              !.invoked[k] = @ + 1]
    /\ UNCHANGED <<inv, files, today, concurrent, tracker, probe>>

TaskEnd_aborts(k, outcome) ==
    /\ batch.pc = "running"
    /\ k \in DOMAIN batch.task
    /\ batch.task[k] = "running"
    /\ batch' = IF outcome = "raised"
                THEN [batch EXCEPT !.pc = "aborted", !.task[k] = "false"]
                ELSE [batch EXCEPT !.task[k] = IF outcome = "ok" THEN "true"
                                                ELSE "false"]
    /\ UNCHANGED <<inv, files, today, concurrent, tracker, probe>>

\* The invocation for company k ends: return code 0 or StatusCode 200
\* ("ok"), another code ("failed"), or an exception, which the task or the
\* loop body catches. The command line client writes the response to its
\* outfile.
TaskEnd(k, outcome) ==
    /\ batch.pc = "running"
    /\ k \in DOMAIN batch.task
    /\ batch.task[k] = "running"
    /\ batch' = [batch EXCEPT
                   !.task[k] = IF outcome = "ok" THEN "true" ELSE "false",
                   !.response_json =
                       IF outcome = "ok" /\ batch.entry # "scheduled"
                       THEN k ELSE @,
                   !.success_count =
                       IF outcome = "ok" /\ ~batch.async_mode
                       THEN @ + 1 ELSE @]
    /\ UNCHANGED <<inv, files, today, concurrent, tracker, probe>>

\* Every invocation has ended: success_count of gather's results, the
\* "Completed!" line, and what the entry point gives its caller. Under
\* invoke_batch_handler click ends the command with sys.exit, and
\* SystemExit is not an Exception.
Report ==
    /\ batch.pc = "running"
    /\ Finished(batch) = DOMAIN batch.task
    /\ batch' = [batch EXCEPT
                   !.pc = "reported",
                   !.success_count =
                       IF batch.async_mode
                       THEN Cardinality({ k \in DOMAIN batch.task :
                                             batch.task[k] = "true" })
                       ELSE @,
                   !.response =
                       IF batch.entry = "scheduled"
                       THEN Returned([statusCode |-> 200,
                                      companies_processed |->
                                          Len(batch.company_names),
                                      success_count |-> batch.success_count])
                       ELSE IF batch.entry = "batch_handler"
                       THEN Raised("SystemExit")
                       ELSE NoOutcome]
    /\ UNCHANGED <<inv, files, today, concurrent, tracker, probe>>

InitBatch ==
    /\ Quiescent
    /\ probe = NoProbe

NextBatch ==
    \/ \E async_mode \in BOOLEAN, limit \in CliLimits, stocks_exists \in BOOLEAN :
          InvokeLambdaCli(async_mode, limit, stocks_exists)
    \/ \E limit \in EventLimits, stocks_exists \in BOOLEAN :
          InvokeBatchHandler(limit, stocks_exists)
    \/ \E stocks_exists \in BOOLEAN : ScheduledInvokeHandler(stocks_exists)
    \/ \E k \in 1..Len(StockNames) : TaskStart(k)
    \/ \E k \in 1..Len(StockNames) :
          \E outcome \in {"ok", "failed", "raised"} : TaskEnd(k, outcome)
    \/ Report

SpecBatch == InitBatch /\ [][NextBatch]_vars
\* every invocation that has started ends, and the run goes on while it can
SpecBatchFair == SpecBatch /\ WF_vars(NextBatch)

(***************************************************************************)
(* deployment/lambda/lambda_handler.py and format_api_response: what the   *)
(* API-facing code answers.                                                *)
(***************************************************************************)
\* the parameters of QwenClient.__init__ and the keywords of the call
QwenClientInitParams == {"self"}
QwenClientCallKeywords == {"creds_uri"}

\* datetime.datetime.now().strftime("%Y%m%d_%H%M%S")
Timestamp(date) == <<date, "_", "101500">>

\* str.replace(" ", "_")
ReplaceSpaces(s) == [k \in 1..Len(s) |-> IF s[k] = " " THEN "_" ELSE s[k]]

\* output_uri = f"s3://{s3_bucket}/outputs/{filename}" with
\* filename = f"{company_name.lower().replace(' ', '_')}_{timestamp}.json"
LambdaOutputUri(s3_bucket, company_name, timestamp) ==
    <<s3_bucket, "outputs",
      ReplaceSpaces(Lower(company_name)) \o <<"_">> \o timestamp \o <<".json">>>>

\* The events: a direct invocation, an API request, and a batch of three
\* queue items, each with or without company_name in its body.
QueueItem(k, has_name) ==
    [messageId |-> k, has_company_name |-> has_name]
ApiEvents ==
    { [kind |-> "direct", company_name |-> c] : c \in Companies \cup {<<>>} }
    \cup { [kind |-> "api", queryStringParameters |-> [kind |-> "null"]],
           [kind |-> "api", queryStringParameters |-> [kind |-> "dict"]] }
    \cup { [kind |-> "api",
            queryStringParameters |-> [kind |-> "dict", company_name |-> c]] :
              c \in Companies }
    \cup { [kind |-> "queue",
            Records |-> <<QueueItem(1, h[1]), QueueItem(2, h[2]),
                          QueueItem(3, h[3])>>] : h \in [1..3 -> BOOLEAN] }

\* lines 26-28: event.get("company_name") or
\* event.get("queryStringParameters", {}).get("company_name")
EventCompanyName(event) ==
    IF event.kind = "direct" /\ event.company_name # <<>>
    THEN [kind |-> "str", value |-> event.company_name]
    ELSE IF event.kind = "api" /\ event.queryStringParameters.kind = "null"
    THEN [kind |-> "raise", exc |-> "AttributeError"]
    ELSE IF /\ event.kind = "api"
            /\ "company_name" \in DOMAIN event.queryStringParameters
    THEN [kind |-> "str", value |-> event.queryStringParameters.company_name]
    ELSE [kind |-> "None"]

\* what analyze_company_news can return
PipelineResults ==
    UNION { { NoArticlesResult(c, d),
              ToolErrorResult(c, d, <<a>>, <<"Error:", "Connection error.">>),
              SuccessResult(c, d, <<a>>, ScenarioReply),
              SuccessResult(c, d, <<a>>, NegativeReply) } :
            c \in Companies, d \in Days, a \in Articles }

ErrorResponse(statusCode, message) ==
    [statusCode |-> statusCode,
     body |-> [error |-> message, status |-> "error"]]

\* lambda_handler: the response, and history: the pipeline result it got
\* and the object it wrote. analysis is what analyze_company_news returns
\* for the company when the handler reaches it.
lambda_handler(event, analysis, date) ==
    LET company_name == EventCompanyName(event)
    IN IF company_name.kind = "raise"
       THEN [response |-> ErrorResponse(500, company_name.exc),
             analysis |-> NoAnalysis, output_uri |-> <<>>]
       ELSE IF company_name.kind = "None"
       THEN [response |->
                [statusCode |-> 400,
                 body |-> [error |-> "company_name parameter is required"]],
             analysis |-> NoAnalysis, output_uri |-> <<>>]
       ELSE IF ~(QwenClientCallKeywords \subseteq QwenClientInitParams)
       THEN [response |-> ErrorResponse(500, "TypeError"),
             analysis |-> NoAnalysis, output_uri |-> <<>>]
       ELSE [response |->
                [statusCode |-> 200,
                 body |-> [company |-> analysis.company,
                           analysis_date |-> analysis.analysis_date,
                           overall_sentiment |-> analysis.overall_sentiment,
                           confidence |-> analysis.confidence,
                           articles_analyzed |-> analysis.articles_analyzed,
                           status |-> "success"]],
             analysis |-> analysis,
             output_uri |->
                IF analysis.status = "success"
                THEN LambdaOutputUri(S3Bucket, company_name.value,
                                     Timestamp(date))
                ELSE <<>>]

\* "parameter is required" in analysis.get("display_message", "")
ParameterRequired(display_message) ==
    \E k \in 1..Len(display_message) :
        display_message[k] = "parameter is required"

format_api_response_always_ok(analysis, s3_location) ==
    [statusCode |-> 200,
     body |-> [company |-> analysis.company, status |-> "success"]]

\* BSEAnalysisService.format_api_response
format_api_response(analysis, s3_location) ==
    IF analysis.status # "success"
    THEN ErrorResponse(IF ParameterRequired(analysis.display_message)
                       THEN 400 ELSE 500,
                       analysis.display_message)
    ELSE [statusCode |-> 200,
          body |-> [company |-> analysis.company,
                    analysis_date |-> analysis.analysis_date,
                    overall_sentiment |-> analysis.overall_sentiment,
                    confidence |-> analysis.confidence,
                    articles_analyzed |-> analysis.articles_analyzed,
                    key_positive_drivers |-> analysis.key_positive_drivers,
                    key_risk_factors |-> analysis.key_risk_factors,
                    status |-> "success",
                    analysis_reasoning |-> analysis.analysis_reasoning,
                    s3_location |-> s3_location]]

\* the analyses format_api_response is given: the pipeline's results, the
\* guard's skipped result, and an error whose message names a parameter
ApiAnalyses ==
    PipelineResults
    \cup { SkippedResult(c) : c \in Companies }
    \cup { ToolErrorResult(c, d, <<>>,
                           <<"Error:", " ", "company_name ",
                             "parameter is required">>) :
             c \in Companies, d \in Days }

InitApi ==
    /\ Quiescent
    /\ \/ \E event \in ApiEvents, analysis \in PipelineResults :
             probe = [op |-> "input", fn |-> "lambda_handler",
                      event |-> event, analysis |-> analysis]
       \/ \E analysis \in ApiAnalyses, s3_location \in {<<>>, <<"outputs">>} :
             probe = [op |-> "input", fn |-> "format_api_response",
                      analysis |-> analysis, s3_location |-> s3_location]

\* lambda_handler(event, context)
ApplyLambdaHandler ==
    /\ probe.op = "input"
    /\ probe.fn = "lambda_handler"
    /\ probe' = [op |-> "result", fn |-> probe.fn, event |-> probe.event,
                 result |-> lambda_handler(probe.event, probe.analysis, today)]
    /\ UNCHANGED <<inv, files, today, concurrent, tracker, batch>>

\* BSEAnalysisService.format_api_response(analysis, s3_location)
ApplyFormatApiResponse ==
    /\ probe.op = "input"
    /\ probe.fn = "format_api_response"
    /\ probe' = [op |-> "result", fn |-> probe.fn,
                 analysis |-> probe.analysis,
                 result |-> format_api_response(probe.analysis,
                                                probe.s3_location)]
    /\ UNCHANGED <<inv, files, today, concurrent, tracker, batch>>

NextApi ==
    \/ ApplyLambdaHandler
    \/ ApplyFormatApiResponse

SpecApi == InitApi /\ [][NextApi]_vars

(***************************************************************************)
(* The key of a company's record on a day, as the guard, the save and the  *)
(* Lambda handler each build it.                                           *)
(***************************************************************************)
InitKeys ==
    /\ Quiescent
    /\ \E company_name \in CompanyNames, date \in Days :
          probe = [op |-> "input", fn |-> "keys",
                   company_name |-> company_name, date |-> date]

\* check_analysis_exists lines 165-167, save_analysis_to_file lines 700-714
\* and lambda_handler lines 57-59, for one company on one day
ApplyKeys ==
    /\ probe.op = "input"
    /\ probe.fn = "keys"
    /\ probe' = [op |-> "result", fn |-> probe.fn,
                 company_name |-> probe.company_name, date |-> probe.date,
                 file_path |-> S3Path(S3Bucket, probe.date,
                                      _generate_filename(probe.company_name)),
                 filepath |-> LocalPath(probe.date,
                                        _generate_filename(probe.company_name)),
                 output_uri |-> LambdaOutputUri(S3Bucket, probe.company_name,
                                                Timestamp(probe.date))]
    /\ UNCHANGED <<inv, files, today, concurrent, tracker, batch>>

SpecKeys == InitKeys /\ [][ApplyKeys]_vars

(***************************************************************************)
(* Properties.                                                             *)
(***************************************************************************)
\* the invocations past the guard line
PastGuard == { i \in Slots : inv[i].pc \notin {"idle", "guard"} }
\* the invocations whose outcome the caller has
Done == { i \in Slots : inv[i].pc = "done" }
\* the key the guard names for a company on a day
GuardKey(company_name, date) ==
    S3Path(S3Bucket, date, _generate_filename(company_name))

\* C1: an invocation with force = false that found a JSON-parseable record at
\* today's key of its company makes no feed request, no page fetch, no
\* completion call and no write.
C1_NoWorkWhenRecordExists ==
    \A i \in PastGuard :
        (~inv[i].force /\ inv[i].at_key.kind = "json")
        => /\ inv[i].feed_fetches = 0
           /\ inv[i].content_fetches = 0
           /\ inv[i].completion_calls = 0
           /\ inv[i].writes = 0
           /\ files[GuardKey(inv[i].company, inv[i].key_day)] = inv[i].at_key

\* C1 witness: such an invocation has ended.
C1_Witness ==
    \E i \in Done :
        /\ ~inv[i].force
        /\ inv[i].at_key.kind = "json"
        /\ inv[i].completion_calls = 0

\* C2: an invocation with force = false that found a JSON-parseable record at
\* today's key returns that stored record, every field as stored.
C2_ReturnsStoredRecord ==
    \A i \in Done :
        (~inv[i].force /\ inv[i].at_key.kind = "json")
        => inv[i].outcome = Returned(inv[i].at_key.doc)

\* C3: an invocation with force = true issues the four feed queries, calls the
\* completion service when an article was found, and writes the result,
\* whatever the store held.
C3_ForceRecomputesAndWrites ==
    \A i \in Done :
        inv[i].force
        => /\ inv[i].feed_fetches = NumQueries
           /\ (inv[i].unique_articles # <<>> => inv[i].completion_calls = 1)
           /\ inv[i].writes = 1
           /\ inv[i].outcome.kind = "return"

\* C4: when the object at the guard's key is absent, unreadable or no JSON,
\* the guard of an invocation with force = false reports "does not exist"
\* without raising and the invocation goes on to recompute.
C4_ReadFailureMeansRecompute ==
    \A i \in PastGuard :
        (~inv[i].force /\ inv[i].at_key.kind \in {"absent", "unreadable", "malformed"})
        => /\ inv[i].guard = "False"
           /\ (inv[i].pc = "done" => inv[i].feed_fetches = NumQueries)

\* C5: two overlapping invocations with force = false for one company, both
\* at the guard while no record is at the key, both pass the check and both
\* write, and the key then holds what one of them wrote.
C5_BothPassAndWrite ==
    \A i \in Done : \A j \in Done \ {i} :
        (/\ inv[i].company = inv[j].company
         /\ ~inv[i].force /\ ~inv[j].force
         /\ inv[i].key_day = inv[j].key_day
         /\ inv[i].at_key.kind = "absent" /\ inv[j].at_key.kind = "absent")
        => /\ inv[i].guard = "False" /\ inv[j].guard = "False"
           /\ inv[i].writes = 1 /\ inv[j].writes = 1
           /\ files[GuardKey(inv[i].company, inv[i].key_day)]
                \in {JsonDoc(inv[i].analysis), JsonDoc(inv[j].analysis)}

\* the step in which invocation i saves its analysis
SaveStepOf(i) == inv[i].pc = "save" /\ inv'[i].pc = "done"
\* the paths invocation i may write: its company's file of the analysis date
OwnPaths(i) ==
    { S3Path(S3Bucket, inv[i].analysis.analysis_date,
             _generate_filename(inv[i].company)),
      LocalPath(inv[i].analysis.analysis_date,
                _generate_filename(inv[i].company)) }

\* C6: with one invocation at a time, a persisted JSON record changes only in
\* the save step of an invocation with force = true for that record's key.
C6_RecordChangesOnlyByForce ==
    [][\A p \in DOMAIN files :
          (files[p].kind = "json" /\ files'[p] # files[p])
          => \E i \in Slots : SaveStepOf(i) /\ inv[i].force /\ p \in OwnPaths(i)]_vars

\* C6 witness: a record is at the key, an invocation without force for it
\* has ended, and the record is as it was.
C6_Witness ==
    \E i \in Done :
        /\ ~inv[i].force
        /\ inv[i].at_key.kind = "json"
        /\ files[GuardKey(inv[i].company, inv[i].key_day)] = inv[i].at_key
        /\ inv[i].outcome.kind # "none"

\* the invocations whose pipeline (analyze_company_news) has returned
PipelineReturned == { i \in Slots : inv[i].analysis.status # "none" }

\* C7: a pipeline result with status error has overall_sentiment 0,
\* confidence 0 and both factor lists empty.
C7_ErrorResultIsZeroed ==
    \A i \in PipelineReturned :
        inv[i].analysis.status = "error"
        => /\ inv[i].analysis.overall_sentiment = 0
           /\ inv[i].analysis.confidence = 0
           /\ inv[i].analysis.key_positive_drivers = <<>>
           /\ inv[i].analysis.key_risk_factors = <<>>

\* C7 witness: an error result for an invocation that had articles, whose
\* completion call was made.
C7_Witness ==
    \E i \in PipelineReturned :
        /\ inv[i].analysis.status = "error"
        /\ inv[i].analysis.articles_analyzed >= 1
        /\ inv[i].completion_calls = 1

\* C8: every pipeline result has overall_sentiment in -5..5.
C8_SentimentInRange ==
    \A i \in PipelineReturned :
        inv[i].analysis.overall_sentiment \in -5..5

\* C9: a pipeline result with status success has articles_analyzed >= 1.
C9_SuccessHasArticles ==
    \A i \in PipelineReturned :
        inv[i].analysis.status = "success"
        => inv[i].analysis.articles_analyzed >= 1

\* C9 witness: a success result.
C9_Witness ==
    \E i \in PipelineReturned :
        /\ inv[i].analysis.status = "success"
        /\ inv[i].analysis.articles_analyzed = Len(inv[i].unique_articles)

\* C10: when none of the four queries yielded an article, the pipeline
\* returns the fixed error record with every number zero, and the invocation
\* fetches no page and calls no completion.
C10_NoArticlesShortCircuit ==
    \A i \in Slots :
        (/\ inv[i].pc \in {"execute", "classify", "save", "done", "tracked"}
         /\ inv[i].feed_fetches = NumQueries
         /\ ~inv[i].yielded)
        => /\ inv[i].analysis.status = "error"
           /\ inv[i].analysis.display_message = <<"No articles found for analysis">>
           /\ inv[i].analysis.overall_sentiment = 0
           /\ inv[i].analysis.confidence = 0
           /\ inv[i].analysis.articles_analyzed = 0
           /\ inv[i].content_fetches = 0
           /\ inv[i].completion_calls = 0

\* C10 witness: an invocation whose four queries yielded nothing has ended
\* with the no-articles record.
C10_Witness ==
    \E i \in Done :
        /\ inv[i].feed_fetches = NumQueries
        /\ ~inv[i].yielded
        /\ inv[i].analysis.articles_analyzed = 0

\* whether the text a occurs in the text b
IsInfix(a, b) ==
    \E k \in 1..(Len(b) - Len(a) + 1) : SubSeq(b, k, k + Len(a) - 1) = a

\* C11: when the completion call of an invocation raised, the pipeline still
\* returns: a result with status error, overall_sentiment 0, confidence 0,
\* both lists empty and a display_message that holds the error's text.
C11_CompletionFailureIsErrorResult ==
    \A i \in Slots :
        (inv[i].completion_error # <<>> /\ inv[i].pc # "classify")
        => /\ inv[i].analysis.status = "error"
           /\ inv[i].analysis.overall_sentiment = 0
           /\ inv[i].analysis.confidence = 0
           /\ inv[i].analysis.key_positive_drivers = <<>>
           /\ inv[i].analysis.key_risk_factors = <<>>
           /\ IsInfix(inv[i].completion_error, inv[i].analysis.display_message)

\* C11 witness: the pipeline has returned for an invocation with an article
\* whose completion call raised.
C11_Witness ==
    \E i \in PipelineReturned :
        /\ inv[i].completion_error # <<>>
        /\ inv[i].completion_calls = 1
        /\ Len(inv[i].unique_articles) >= 1
        /\ inv[i].analysis.status = "error"

\* the step in which invocation i requests one feed
FeedStepOf(i) == inv[i].pc = "query" /\ inv'[i] # inv[i]

\* C12: every feed step of an invocation is the one request for the next
\* query in order (the k-th request is for query k, and query 4 ends the
\* loop); a request that fails adds no article and the loop goes on.
C12_EachQueryOnceInOrder ==
    [][\A i \in Slots :
          FeedStepOf(i)
          => /\ inv[i].feed_fetches = inv[i].qidx - 1
             /\ inv'[i].feed_fetches = inv[i].feed_fetches + 1
             /\ inv'[i].pc = (IF inv[i].qidx < NumQueries THEN "query" ELSE "dedup")
             /\ (inv[i].qidx < NumQueries => inv'[i].qidx = inv[i].qidx + 1)
             /\ (inv'[i].last_feed # "ok"
                   => inv'[i].all_articles = inv[i].all_articles)
             /\ inv'[i].outcome = NoOutcome]_vars

\* C12 witness: the fourth request failed after an earlier one had yielded
\* an article, and the loop has ended with the four requests made.
C12_Witness ==
    \E i \in Slots :
        /\ inv[i].pc = "dedup"
        /\ inv[i].feed_fetches = NumQueries
        /\ inv[i].last_feed = "failed"
        /\ inv[i].all_articles # <<>>

\* the articles of a list whose (title, link) pair no earlier article has,
\* from index k on
RECURSIVE FirstOccurrencesFrom(_, _)
FirstOccurrencesFrom(articles, k) ==
    IF k > Len(articles) THEN <<>>
    ELSE (IF \A j \in 1..(k - 1) :
                <<articles[j].title, articles[j].link>>
                    # <<articles[k].title, articles[k].link>>
          THEN <<articles[k]>> ELSE <<>>)
         \o FirstOccurrencesFrom(articles, k + 1)

\* C13: _deduplicate_articles returns, in input order, the first article of
\* every distinct (title, link) pair, and drops nothing else.
C13_DedupKeepsFirstOfEachPair ==
    (probe.op = "result" /\ probe.fn = "_deduplicate_articles")
    => probe.result = FirstOccurrencesFrom(probe.articles, 1)

\* the applications of _parse_combined_analysis that returned
Parsed ==
    /\ probe.op = "result"
    /\ probe.fn = "_parse_combined_analysis"
    /\ probe.raised = "none"

\* the factor list the parse extracts from a text
ParsedFactors(analysis_text) ==
    LET factors_match == LabelGroup(analysis_text, "Key Factors:", "Score:")
    IN IF factors_match.found
       THEN SplitLines(Strip(factors_match.text, Whitespace)) ELSE <<>>

\* C14: a positive score puts the parsed factors in key_positive_drivers and
\* leaves key_risk_factors empty, a negative score the reverse, a zero score
\* leaves both empty; so at most one of the lists is non-empty.
C14_FactorsFollowScoreSign ==
    Parsed =>
        LET r == probe.result
            factors == ParsedFactors(probe.analysis_text)
        IN /\ (r.overall_sentiment > 0
                => r.key_positive_drivers = factors /\ r.key_risk_factors = <<>>)
           /\ (r.overall_sentiment < 0
                => r.key_risk_factors = factors /\ r.key_positive_drivers = <<>>)
           /\ (r.overall_sentiment = 0
                => r.key_positive_drivers = <<>> /\ r.key_risk_factors = <<>>)
           /\ (r.key_positive_drivers = <<>> \/ r.key_risk_factors = <<>>)

\* C14 witness: a reply with a negative score and a factor has been parsed.
C14_Witness ==
    /\ Parsed
    /\ probe.result.overall_sentiment < 0
    /\ probe.result.key_risk_factors # <<>>
    /\ probe.result.key_positive_drivers = <<>>

\* C15: the confidence of a parse with article count n is min(100, 10 n):
\* within 0..100, 100 from n = 10 on, and never below that of a smaller count.
C15_ConfidenceIsCappedCount ==
    Parsed =>
        LET n == probe.article_count
            c == probe.result.confidence
        IN /\ c = (IF 10 * n <= 100 THEN 10 * n ELSE 100)
           /\ c \in 0..100
           /\ (n >= 10 => c = 100)
           /\ \A m \in 0..n :
                 _parse_combined_analysis(probe.analysis_text, m).confidence <= c

\* C15 witness: a parse with more than ten articles, its confidence at the cap.
C15_Witness ==
    /\ Parsed
    /\ probe.article_count > 10
    /\ probe.result.confidence = 100

\* C16: every application of _parse_combined_analysis returns without
\* raising, a record of the five fields, a field whose label is missing at
\* its default.
C16_ParseIsTotal ==
    (probe.op = "result" /\ probe.fn = "_parse_combined_analysis")
    => /\ probe.raised = "none"
       /\ DOMAIN probe.result =
             {"overall_sentiment", "analysis_reasoning", "key_positive_drivers",
              "key_risk_factors", "confidence"}
       /\ ("Score:" \notin Range(probe.analysis_text)
             => probe.result.overall_sentiment = 0)
       /\ ("Reasoning:" \notin Range(probe.analysis_text)
             => probe.result.analysis_reasoning = <<>>)
       /\ ("Key Factors:" \notin Range(probe.analysis_text)
             => /\ probe.result.key_positive_drivers = <<>>
                /\ probe.result.key_risk_factors = <<>>)

\* where the digits of an integer with an optional sign '+' or '-' start
\* after the label Score: at i and optional whitespace (0 when there is none)
SignedDigitsAt(s, i) ==
    IF s[i] # "Score:" THEN 0
    ELSE LET j == SkipWs(s, i + 1)
             d == IF j <= Len(s) /\ s[j] \in {"-", "+"} THEN j + 1 ELSE j
         IN IF d <= Len(s) /\ IsDigit(s[d]) THEN d ELSE 0

\* the integer after the first such label, 0 when there is none
LabelledInteger(s) ==
    IF \E i \in 1..Len(s) : SignedDigitsAt(s, i) # 0
    THEN LET i == CHOOSE i \in 1..Len(s) :
                    /\ SignedDigitsAt(s, i) # 0
                    /\ \A h \in 1..(i - 1) : SignedDigitsAt(s, h) = 0
             d == SignedDigitsAt(s, i)
             v == IntOf(SubSeq(s, d, SkipDigits(s, d) - 1))
         IN IF s[d - 1] = "-" THEN 0 - v ELSE v
    ELSE 0

\* C17: the parsed overall_sentiment is the integer, with its optional sign
\* '+' or '-', that follows the label Score:, and 0 when no such label is in
\* the text.
C17_ScoreIsLabelledInteger ==
    Parsed => probe.result.overall_sentiment = LabelledInteger(probe.analysis_text)

Labels == {"Score:", "Reasoning:", "Key Factors:"}

\* the text between the first occurrence of a label and the next label or
\* the end of the text
SectionAfter(s, label) ==
    IF \E i \in 1..Len(s) : s[i] = label
    THEN LET i == CHOOSE i \in 1..Len(s) :
                    s[i] = label /\ \A h \in 1..(i - 1) : s[h] # label
             e == CHOOSE p \in (i + 1)..(Len(s) + 1) :
                    /\ (p = Len(s) + 1 \/ s[p] \in Labels)
                    /\ \A q \in (i + 1)..(p - 1) : s[q] \notin Labels
         IN SubSeq(s, i + 1, e - 1)
    ELSE <<>>

\* the lines of a section, none for a section without text
SectionLines(s, label) ==
    IF SectionAfter(s, label) = <<>> THEN <<>>
    ELSE SplitLines(Strip(SectionAfter(s, label), Whitespace))

\* C18: the parsed reasoning is the text of the Reasoning: section and the
\* parsed factors are the lines of the Key Factors: section, each section
\* ending at the next label or at the end of the text, whatever the order
\* of the sections.
C18_SectionsEndAtNextLabel ==
    Parsed =>
        LET r == probe.result
            text == probe.analysis_text
        IN /\ r.analysis_reasoning = Strip(SectionAfter(text, "Reasoning:"), Whitespace)
           /\ (r.overall_sentiment > 0
                => r.key_positive_drivers = SectionLines(text, "Key Factors:"))
           /\ (r.overall_sentiment < 0
                => r.key_risk_factors = SectionLines(text, "Key Factors:"))

\* the maximal runs of [a-z0-9] of a text, in order
RECURSIVE AlnumRuns(_)
AlnumRuns(s) ==
    IF s = <<>> THEN <<>>
    ELSE IF ~IsAlnumLower(Head(s)) THEN AlnumRuns(Tail(s))
    ELSE LET n == CHOOSE n \in 1..Len(s) :
                    /\ \A k \in 1..n : IsAlnumLower(s[k])
                    /\ (n = Len(s) \/ ~IsAlnumLower(s[n + 1]))
         IN <<SubSeq(s, 1, n)>> \o AlnumRuns(Drop(s, n + 1))

\* the runs joined by single underscores
RECURSIVE JoinUnderscore(_)
JoinUnderscore(runs) ==
    IF runs = <<>> THEN <<>>
    ELSE IF Len(runs) = 1 THEN runs[1]
    ELSE runs[1] \o <<"_">> \o JoinUnderscore(Tail(runs))

\* a name with the same runs of [a-z0-9], every other character spelt "! "
RECURSIVE Respell(_)
Respell(s) ==
    IF s = <<>> THEN <<>>
    ELSE (IF IsAlnumLower(LowerChar(Head(s))) THEN <<Head(s)>> ELSE <<"!", " ">>)
         \o Respell(Tail(s))

ScenarioFilename ==
    <<"t", "a", "t", "a", "_", "c", "o", "n", "s", "u", "l", "t", "a", "n",
      "c", "y", "_", "s", "e", "r", "v", "i", "c", "e", "s">>
    \o <<".json">>

\* C19: the filename of a company name is the maximal runs of [a-z0-9] of
\* the lower-cased name joined by single underscores, then ".json": the stem
\* has no leading, trailing or doubled underscore, the name in lower case and
\* the name with its other characters respelt get the same filename, and the
\* scenario's name gets the scenario's filename.
C19_FilenameIsJoinedRuns ==
    (probe.op = "result" /\ probe.fn = "_generate_filename")
    => LET name == probe.company_name
           stem == SubSeq(probe.result, 1, Len(probe.result) - 1)
       IN /\ probe.result = JoinUnderscore(AlnumRuns(Lower(name))) \o <<".json">>
          /\ probe.result[Len(probe.result)] = ".json"
          /\ (stem # <<>> => stem[1] # "_" /\ stem[Len(stem)] # "_")
          /\ \A k \in 1..(Len(stem) - 1) : ~(stem[k] = "_" /\ stem[k + 1] = "_")
          /\ _generate_filename(Lower(name)) = probe.result
          /\ _generate_filename(Respell(name)) = probe.result
          /\ (name = ScenarioName => probe.result = ScenarioFilename)

\* C19 witness: the filename of a name with an upper-case letter and a
\* trailing run of other characters has been derived.
C19_Witness ==
    /\ probe.op = "result"
    /\ probe.fn = "_generate_filename"
    /\ \E k \in 1..Len(probe.company_name) : probe.company_name[k] = "T"
    /\ probe.company_name[Len(probe.company_name)] = "!"
    /\ probe.result # <<".json">>

\* the invocations of scrape_bse_news that have ended
Tracked == { i \in Slots : inv[i].pc = "tracked" }

\* C20: the caller of scrape_bse_news gets the outcome of the analysis, the
\* returned result or the exception it raised, whatever the tracking did.
C20_TrackingNeverPropagates ==
    \A i \in Tracked : inv[i].caller = inv[i].outcome

\* C21: a tracking record, once created for a date and a normalized company
\* name, is never updated: every record of the table is in the table,
\* unchanged, after any later step.
C21_TrackingRecordNeverUpdated ==
    [][\A item \in tracker : item \in tracker']_vars

\* the invocations whose write of the computed result failed
SaveFailed ==
    { i \in Slots : /\ inv[i].pc \in {"done", "tracked"}
                    /\ inv[i].analysis # NoAnalysis
                    /\ inv[i].outcome.kind = "raise" }

C23_Counts ==
    /\ \A k \in DOMAIN batch.invoked : batch.invoked[k] <= 1
    /\ batch.pc = "reported" =>
          /\ \A k \in DOMAIN batch.invoked : batch.invoked[k] = 1
          /\ Finished(batch) = DOMAIN batch.task
          /\ batch.success_count =
                Cardinality({ k \in DOMAIN batch.task : batch.task[k] = "true" })

C23_EveryCompanyOnceThenReport ==
    /\ []C23_Counts
    /\ (batch.pc = "running") ~> (batch.pc = "reported")

C23_Witness ==
    /\ batch.pc = "reported"
    /\ batch.async_mode
    /\ Len(batch.company_names) = Len(StockNames)
    /\ batch.task = <<"true", "false", "true">>
    /\ batch.success_count = 2

\* the tasks of the fan-out that are running at the same time
RunningTasks == { k \in DOMAIN batch.task : batch.task[k] = "running" }

\* C24: the concurrent tasks of the fan-out share no file or output
\* location: no two tasks running at the same time write to the same place.
C24_TasksShareNoOutput ==
    batch.async_mode =>
        \A j, k \in RunningTasks :
            j # k => OutFile(batch.entry, j) # OutFile(batch.entry, k)

\* the first n companies of the stocks file, all of them when n is larger
FirstCompanies(n) ==
    SubSeq(StockNames, 1, IF n <= Len(StockNames) THEN n ELSE Len(StockNames))

\* the companies a run that has ended invoked, in order
Processed ==
    IF batch.pc = "reported" THEN batch.company_names ELSE <<>>

\* C27: a run given a non-negative integer limit L processes exactly the
\* first min(L, N) companies of the list, in order, 0 included; a run given
\* no limit processes all N; the batch handler rejects a negative or
\* non-integer limit with a 400 and processes no company.
C27_LimitSelectsPrefix ==
    (/\ batch.pc \in {"reported", "aborted"}
     /\ batch.entry \in {"cli", "batch_handler"}
     /\ batch.stocks_exists)
    => /\ batch.limit.kind = "none" => Processed = StockNames
       /\ (batch.limit.kind = "int" /\ batch.limit.value >= 0)
             => Processed = FirstCompanies(batch.limit.value)
       /\ (/\ batch.entry = "batch_handler"
           /\ \/ batch.limit.kind \in {"str", "bool"}
              \/ batch.limit.kind = "int" /\ batch.limit.value < 0)
             => /\ batch.response.kind = "return"
                /\ batch.response.value.statusCode = 400
                /\ Processed = <<>>

\* the identifiers of the queue items that lack company_name
FailedItems(event) ==
    { event.Records[k].messageId :
        k \in { j \in DOMAIN event.Records :
                   ~event.Records[j].has_company_name } }

\* C25: given a batch of queue items the handler returns exactly the
\* identifiers of the items that failed, here those lacking company_name.
C25_FailedItemsReturned ==
    (/\ probe.op = "result"
     /\ probe.fn = "lambda_handler"
     /\ probe.event.kind = "queue")
    => /\ "batchItemFailures" \in DOMAIN probe.result.response
       /\ probe.result.response.batchItemFailures = FailedItems(probe.event)

C28_GuardReadsTheSavedKey ==
    probe.op = "result" /\ probe.fn = "keys" =>
        /\ probe.file_path = probe.filepath
        /\ probe.file_path = probe.output_uri

\* C29: an invocation that computed a result with status error returns and
\* leaves it at the guard's key of its company and day, and an invocation
\* with force = false that finds a JSON record at that key returns skipped
\* without a feed request.
C29_ErrorResultsPersistAndSkip ==
    \A i \in Done :
        /\ (inv[i].analysis # NoAnalysis /\ inv[i].analysis.status = "error")
              => /\ inv[i].outcome.kind = "return"
                 /\ files[GuardKey(inv[i].company, inv[i].analysis.analysis_date)]
                       = JsonDoc(inv[i].analysis)
        /\ (~inv[i].force /\ inv[i].at_key.kind = "json")
              => /\ inv[i].outcome = Returned(SkippedResult(inv[i].company))
                 /\ inv[i].feed_fetches = 0

\* the invocations whose scoring step gave a result for the tool's text
Scored ==
    { i \in Slots : inv[i].analysis # NoAnalysis /\ inv[i].unique_articles # <<>> }

\* C30: the result of the scoring step has status error exactly when the
\* text WebFetchTool.execute returned holds "Error:", and status success
\* otherwise.
C30_ErrorIffToolTextHasError ==
    \A i \in Scored :
        /\ inv[i].analysis.status \in {"error", "success"}
        /\ inv[i].analysis.status = "error"
              <=> \E k \in 1..Len(inv[i].llm_content) :
                     inv[i].llm_content[k] = "Error:"

C30_Witness ==
    \E i \in Scored :
        /\ inv[i].analysis.status = "error"
        /\ inv[i].completion_calls = 1
        /\ inv[i].completion_error = <<>>
        /\ inv[i].llm_content[1] # "Error:"

====
